---- MODULE Spec2Model ----
(***************************************************************************)
(* A model of main.py: a variational autoencoder (VAE) whose custom        *)
(* train_step composes encoder -> Sampling -> decoder, computes the loss    *)
(* reconstruction + KL and performs one optimizer update; a driver that    *)
(* loads, truncates and scales the data and runs fit; and a generation     *)
(* loop that decodes random latent vectors and displays them.              *)
(*                                                                         *)
(* Tensors that are too large to enumerate are modelled by their shape,    *)
(* the layer that produced them (name), the tensors they were computed     *)
(* from (from) and the forward pass they belong to (call).  Numbers are    *)
(* fixed point, in thousandths, where a transcendental function is used.   *)
(***************************************************************************)
EXTENDS Integers, Sequences, FiniteSets, TLC

VARIABLES pc, npy, x_train, weights, iterations, trackers, epoch, step, tpc,
          data, enc_out, reconstruction, reconstruction_loss, kl_loss,
          total_loss, grads, logs, encoder_calls, decoder_calls,
          i, random_draws, z_sample, x_decoded, image, figure,
          s_inputs, s_epsilon, s_output

vars == <<pc, npy, x_train, weights, iterations, trackers, epoch, step, tpc,
          data, enc_out, reconstruction, reconstruction_loss, kl_loss,
          total_loss, grads, logs, encoder_calls, decoder_calls,
          i, random_draws, z_sample, x_decoded, image, figure,
          s_inputs, s_epsilon, s_output>>

fitVars == <<weights, iterations, trackers, epoch, step, tpc, data, enc_out,
             reconstruction, reconstruction_loss, kl_loss, total_loss, grads,
             logs, encoder_calls>>

genVars == <<i, random_draws, z_sample, x_decoded, image, figure>>

samplingVars == <<s_inputs, s_epsilon, s_output>>

(***************************************************************************)
(* Program constants.                                                      *)
(***************************************************************************)
latent_dim == 32

epochs == 1000

batch_size == 64

TrainLimit == 15000

PixelScale == 255

NumImages == 12

GridRows == 3

GridCols == 4

ImageSide == 60

ImageChannels == 3

(***************************************************************************)
(* Bounds of the model.                                                    *)
(***************************************************************************)
\* per-batch loss values range over 0..MaxLoss
MaxLoss == 2

\* the capped specification explores the first MaxEpoch epochs of fit
MaxEpoch == 2

\* Sampling is explored on batches of up to MaxBatch examples
MaxBatch == 2

\* latent dimensions, and entries of z_mean, z_log_var and epsilon, explored
SampleDims == {1, 2}

MeanVals == {-1, 1}

LogVarVals == {-2, 0}

EpsVals == {-1, 0, 1}

\* pre-activations of the decoder's last layer (extremes over a tensor)
PreActs == {-1, 0, 1}

\* dataset sizes and pixel extremes explored (8-bit pixels)
SmallSizes == {1, 64, 65, 130}

DriverSizes == {64, 65, 15001}

PixelRanges == {<<0, 255>>, <<17, 200>>}

(***************************************************************************)
(* Shapes of the layers used by the encoder and the decoder.               *)
(***************************************************************************)
CeilDiv(a, b) == (a + b - 1) \div b

Min(a, b) == IF a <= b THEN a ELSE b

RECURSIVE Product(_)
Product(s) == IF s = <<>> THEN 1 ELSE Head(s) * Product(Tail(s))

\* keras.Input(shape=...): the model accepts batches of exactly this shape
InputAccepts(per_example, s) == Len(s) = Len(per_example) + 1 /\ Tail(s) = per_example

\* layers.Conv2D(filters, 3, strides=strides, padding="same")
Conv2D(filters, strides, s) ==
    <<s[1], CeilDiv(s[2], strides), CeilDiv(s[3], strides), filters>>

\* layers.Flatten()
Flatten(s) == <<s[1], Product(Tail(s))>>

\* layers.Dense(units)
Dense(units, s) == <<s[1], units>>

\* layers.Reshape(target): defined when the sizes agree
Reshape(target, s) ==
    IF Product(Tail(s)) = Product(target) THEN <<s[1]>> \o target ELSE <<>>

\* a variant: the transposed convolution with padding="valid"
Conv2DTransposeValid(filters, strides, s) ==
    <<s[1], (s[2] - 1) * strides + 3, (s[3] - 1) * strides + 3, filters>>

\* layers.Conv2DTranspose(filters, 3, strides=strides, padding="same")
Conv2DTranspose(filters, strides, s) ==
    <<s[1], s[2] * strides, s[3] * strides, filters>>

\* BatchNormalization and Dropout keep the shape
SameShape(s) == s

(***************************************************************************)
(* Sampling.call on a (batch, dim) tensor of numbers.  z_mean, z_log_var   *)
(* and epsilon hold integers; the result is in thousandths.                *)
(***************************************************************************)
\* 1000 * exp(h / 2), rounded, for the exponents the model uses
ExpHalfMilli(h) ==
    CASE h = -4 -> 135  [] h = -3 -> 223  [] h = -2 -> 368  [] h = -1 -> 607
      [] h = 0  -> 1000 [] h = 1  -> 1649 [] h = 2  -> 2718 [] h = 3  -> 4482
      [] h = 4  -> 7389

\* tf.shape(t) of a tensor held as a sequence of rows
ShapeOf(t) == <<Len(t), Len(t[1])>>

Matrices(batch, dim, vals) == [1..batch -> [1..dim -> vals]]

\* tf.keras.backend.random_normal(shape=(batch, dim)): the possible draws
RandomNormal(batch, dim) == Matrices(batch, dim, EpsVals)

\* a variant: the noise scaled by the variance exp(z_log_var)
SamplingFormulaVariance(z_mean, z_log_var, epsilon) ==
    [b \in 1..Len(z_mean) |->
        [d \in 1..Len(z_mean[1]) |->
            1000 * z_mean[b][d]
                + ExpHalfMilli(2 * z_log_var[b][d]) * epsilon[b][d]]]

\* z_mean + tf.exp(0.5 * z_log_var) * epsilon, elementwise
SamplingFormula(z_mean, z_log_var, epsilon) ==
    [b \in 1..Len(z_mean) |->
        [d \in 1..Len(z_mean[1]) |->
            1000 * z_mean[b][d] + ExpHalfMilli(z_log_var[b][d]) * epsilon[b][d]]]

\* the shape of the noise tensor: batch and dim are read from z_mean
SamplingNoiseShape(z_mean) == <<ShapeOf(z_mean)[1], ShapeOf(z_mean)[2]>>

\* Sampling.call(inputs), for every noise tensor random_normal can return
SamplingCall ==
    /\ s_inputs # <<>>
    /\ s_output = <<>>
    /\ LET z_mean    == s_inputs[1]
           z_log_var == s_inputs[2]
           shape     == SamplingNoiseShape(z_mean)
       IN  \E epsilon \in RandomNormal(shape[1], shape[2]) :
               /\ s_epsilon' = epsilon
               /\ s_output' = SamplingFormula(z_mean, z_log_var, epsilon)
    /\ UNCHANGED <<s_inputs, pc, npy, x_train, fitVars, decoder_calls, genVars>>

(***************************************************************************)
(* Tensors of the pipeline: shape, producing layer, inputs, forward pass.  *)
(***************************************************************************)
NoTensor == [name |-> "none", shape |-> <<>>, from |-> <<>>, call |-> 0]

Tensor(name, shape, from, call) ==
    [name |-> name, shape |-> shape, from |-> from, call |-> call]

\* the Sampling layer inside the encoder graph: Sampling()([z_mean, z_log_var])
SamplingLayer(inputs) ==
    LET z_mean    == inputs[1]
        z_log_var == inputs[2]
        batch     == z_mean.shape[1]
        dim       == z_mean.shape[2]
    IN  Tensor("z", <<batch, dim>>, <<z_mean.name, z_log_var.name>>, z_mean.call)

\* the encoder's input specification
encoder_inputs == <<ImageSide, ImageSide, ImageChannels>>

\* the shape of the feature tensor x that feeds z_mean and z_log_var
EncoderFeatures(s) ==
    LET x1 == Conv2D(32, 2, s)
        x2 == SameShape(x1)
        x3 == SameShape(x2)
        x4 == Conv2D(64, 2, x3)
        x5 == Flatten(x4)
    IN  Dense(16, x5)

\* a variant: the outputs listed as [z, z_mean, z_log_var]
encoderReordered(input, call) ==
    LET x         == EncoderFeatures(input.shape)
        z_mean    == Tensor("z_mean", Dense(latent_dim, x), <<input.name>>, call)
        z_log_var == Tensor("z_log_var", Dense(latent_dim, x), <<input.name>>, call)
        z         == SamplingLayer(<<z_mean, z_log_var>>)
    IN  <<z, z_mean, z_log_var>>

\* encoder(data): the list [z_mean, z_log_var, z]
encoder(input, call) ==
    LET x         == EncoderFeatures(input.shape)
        z_mean    == Tensor("z_mean", Dense(latent_dim, x), <<input.name>>, call)
        z_log_var == Tensor("z_log_var", Dense(latent_dim, x), <<input.name>>, call)
        z         == SamplingLayer(<<z_mean, z_log_var>>)
    IN  <<z_mean, z_log_var, z>>

\* the decoder's input specification
latent_inputs == <<latent_dim>>

\* the shapes of the outputs of the decoder's layers, in order, for an input
\* of shape s
DecoderLayers(s) ==
    LET x1 == Dense(15 * 15 * 128, s)
        x2 == Reshape(<<15, 15, 128>>, x1)
        x3 == Conv2DTranspose(64, 2, x2)
        x4 == SameShape(x3)
        x5 == SameShape(x4)
        x6 == Conv2DTranspose(32, 2, x5)
        x7 == Conv2DTranspose(3, 1, x6)
    IN  <<x1, x2, x3, x4, x5, x6, x7>>

\* the shape of decoder_outputs
DecoderShape(s) == DecoderLayers(s)[7]

\* 1000 * tanh(x), rounded: the activation of the decoder's last layer
TanhMilli(x) ==
    CASE x = -2 -> -964 [] x = -1 -> -762 [] x = 0 -> 0
      [] x = 1  -> 762  [] x = 2  -> 964

\* decoder(z): the output tensor, whose least and greatest entries are the
\* activation of the least and greatest pre-activation pre = <<lo, hi>>
decoder(input, pre) ==
    [name |-> "decoder_outputs", shape |-> DecoderShape(input.shape),
     layers |-> DecoderLayers(input.shape),
     from |-> <<input.name>>, call |-> input.call,
     lo |-> TanhMilli(pre[1]), hi |-> TanhMilli(pre[2])]

NoOutput == [name |-> "none", shape |-> <<>>, layers |-> <<>>, from |-> <<>>,
             call |-> 0,
             lo |-> 0, hi |-> 0]

PreActPairs(P) == {p \in P \X P : p[1] <= p[2]}

(***************************************************************************)
(* The training driver: load, truncate, scale, build and compile the VAE.  *)
(***************************************************************************)
NoData == [n |-> 0, shape |-> <<>>, lo |-> 0, hi |-> 0, den |-> 1]

\* keras.metrics.Mean: a running total and a count
NewMean == [total |-> 0, count |-> 0]

\* VAE.__init__: the three loss trackers
NewTrackers == [total_loss |-> NewMean, reconstruction_loss |-> NewMean,
                kl_loss |-> NewMean]

\* a variant: the kl_loss tracker left out of the list
metricsWithoutKL == {"total_loss", "reconstruction_loss"}

\* VAE.metrics: the trackers that reset_metrics resets
metrics == {"total_loss", "reconstruction_loss", "kl_loss"}

\* the weights of the model, by group; each holds the number of updates made
NewWeights == [encoder |-> 0, decoder |-> 0,
               encoder_moving_stats |-> 0, decoder_moving_stats |-> 0]

\* self.trainable_weights: the kernels, biases and scales of both networks
trainable_weights == {"encoder", "decoder"}

NoLoss == [name |-> "none", val |-> 0, from |-> <<>>, call |-> 0]

NoGrads == [target |-> "none", terms |-> <<>>, wrt |-> {}, call |-> 0]

NoLogs == [loss |-> <<0, 1>>, reconstruction_loss |-> <<0, 1>>,
           kl_loss |-> <<0, 1>>, call |-> 0]

\* x_train = np.load(...): the array stored in the file
Load ==
    /\ pc = "load"
    /\ x_train' = [n |-> npy.n, shape |-> npy.shape, lo |-> npy.lo,
                   hi |-> npy.hi, den |-> 1]
    /\ pc' = "truncate"
    /\ UNCHANGED <<npy, fitVars, decoder_calls, genVars, samplingVars>>

\* x_train = x_train[:15000]
Truncate ==
    /\ pc = "truncate"
    /\ x_train' = [x_train EXCEPT !.n = Min(x_train.n, TrainLimit)]
    /\ pc' = "scale"
    /\ UNCHANGED <<npy, fitVars, decoder_calls, genVars, samplingVars>>

\* x_train = x_train / 255: a value v becomes v / (den * 255)
Scale ==
    /\ pc = "scale"
    /\ x_train' = [x_train EXCEPT !.den = x_train.den * PixelScale]
    /\ pc' = "compile"
    /\ UNCHANGED <<npy, fitVars, decoder_calls, genVars, samplingVars>>

\* vae = VAE(encoder, decoder); vae.compile(...); fit is entered
Compile ==
    /\ pc = "compile"
    /\ trackers' = NewTrackers
    /\ iterations' = 0
    /\ epoch' = 0
    /\ tpc' = "epoch_begin"
    /\ pc' = "fit"
    /\ UNCHANGED <<npy, x_train, weights, step, data, enc_out, reconstruction,
                   reconstruction_loss, kl_loss, total_loss, grads, logs,
                   encoder_calls, decoder_calls, genVars, samplingVars>>

(***************************************************************************)
(* vae.fit(x_train, epochs=1000, batch_size=64): the epoch and batch loops.*)
(***************************************************************************)
\* a variant: the last, partial batch dropped
StepsPerEpochFloor(n) == n \div batch_size

\* the number of batches of an epoch over n examples
StepsPerEpoch(n) == CeilDiv(n, batch_size)

\* the number of examples of the s-th batch (s = 1, 2, ...) of n examples
BatchLen(n, s) == IF s * batch_size <= n THEN batch_size ELSE n - (s - 1) * batch_size

\* the epoch loop goes on while fewer than `epochs` epochs have been run
MoreEpochs(done) == done < epochs

\* the top of the epoch loop: reset_metrics resets the trackers of `metrics`
EpochBegin(cap) ==
    /\ pc = "fit" /\ tpc = "epoch_begin"
    /\ MoreEpochs(epoch)
    /\ epoch < cap
    /\ trackers' = [m \in DOMAIN trackers |->
                       IF m \in metrics THEN NewMean ELSE trackers[m]]
    /\ step' = 0
    /\ tpc' = "next_batch"
    /\ UNCHANGED <<pc, npy, x_train, weights, iterations, epoch, data, enc_out,
                   reconstruction, reconstruction_loss, kl_loss, total_loss,
                   grads, logs, encoder_calls, decoder_calls, genVars,
                   samplingVars>>

\* the batch loop hands the next batch to train_step
TrainStepBegin ==
    /\ pc = "fit" /\ tpc = "next_batch"
    /\ step < StepsPerEpoch(x_train.n)
    /\ step' = step + 1
    /\ data' = [name |-> "data",
                shape |-> <<BatchLen(x_train.n, step + 1)>> \o x_train.shape,
                from |-> <<>>, call |-> encoder_calls + 1,
                lo |-> x_train.lo, hi |-> x_train.hi, den |-> x_train.den]
    /\ tpc' = "encode"
    /\ UNCHANGED <<pc, npy, x_train, weights, iterations, trackers, epoch,
                   enc_out, reconstruction, reconstruction_loss, kl_loss,
                   total_loss, grads, logs, encoder_calls, decoder_calls,
                   genVars, samplingVars>>

\* the batch loop is exhausted: the epoch is over
EpochEnd ==
    /\ pc = "fit" /\ tpc = "next_batch"
    /\ step = StepsPerEpoch(x_train.n)
    /\ epoch' = epoch + 1
    /\ tpc' = "epoch_begin"
    /\ UNCHANGED <<pc, npy, x_train, weights, iterations, trackers, step, data,
                   enc_out, reconstruction, reconstruction_loss, kl_loss,
                   total_loss, grads, logs, encoder_calls, decoder_calls,
                   genVars, samplingVars>>

\* a variant: fit returns at the top of any epoch
FitEndAnyEpoch ==
    /\ pc = "fit" /\ tpc = "epoch_begin"
    /\ tpc' = "idle"
    /\ pc' = "gen_draw"
    /\ i' = 0
    /\ UNCHANGED <<npy, x_train, weights, iterations, trackers, epoch, step,
                   data, enc_out, reconstruction, reconstruction_loss, kl_loss,
                   total_loss, grads, logs, encoder_calls, decoder_calls,
                   random_draws, z_sample, x_decoded, image, figure,
                   samplingVars>>

\* fit returns; the script goes on to the generation loop
FitEnd ==
    /\ pc = "fit" /\ tpc = "epoch_begin"
    /\ ~MoreEpochs(epoch)
    /\ tpc' = "idle"
    /\ pc' = "gen_draw"
    /\ i' = 0
    /\ UNCHANGED <<npy, x_train, weights, iterations, trackers, epoch, step,
                   data, enc_out, reconstruction, reconstruction_loss, kl_loss,
                   total_loss, grads, logs, encoder_calls, decoder_calls,
                   random_draws, z_sample, x_decoded, image, figure,
                   samplingVars>>

(***************************************************************************)
(* VAE.train_step(data), one action per statement.                         *)
(***************************************************************************)
\* an exception ends the script
Raise == pc' = "error" /\ tpc' = "idle"

\* z_mean, z_log_var, z = self.encoder(data)
Encode ==
    /\ pc = "fit" /\ tpc = "encode"
    /\ IF InputAccepts(encoder_inputs, data.shape)
       THEN /\ enc_out' = encoder(data, encoder_calls + 1)
            /\ encoder_calls' = encoder_calls + 1
            /\ tpc' = "decode"
            /\ pc' = pc
       ELSE Raise /\ UNCHANGED <<enc_out, encoder_calls>>
    /\ UNCHANGED <<npy, x_train, weights, iterations, trackers, epoch, step,
                   data, reconstruction, reconstruction_loss, kl_loss,
                   total_loss, grads, logs, decoder_calls, genVars,
                   samplingVars>>

\* the names train_step gives to the three outputs of the encoder
Unpacked == [z_mean |-> enc_out[1], z_log_var |-> enc_out[2], z |-> enc_out[3]]

\* a variant: the decoder is handed the mean instead of the sample
DecoderArgumentMean == Unpacked.z_mean

\* the tensor train_step hands to the decoder
DecoderArgument == Unpacked.z

\* reconstruction = self.decoder(z)
Decode(P) ==
    /\ pc = "fit" /\ tpc = "decode"
    /\ \E pre \in PreActPairs(P) :
           reconstruction' = decoder(DecoderArgument, pre)
    /\ decoder_calls' = decoder_calls + 1
    /\ tpc' = "recon_loss"
    /\ UNCHANGED <<pc, npy, x_train, weights, iterations, trackers, epoch, step,
                   data, enc_out, reconstruction_loss, kl_loss, total_loss,
                   grads, logs, encoder_calls, genVars, samplingVars>>

\* reconstruction_loss = reduce_mean(reduce_sum(binary_crossentropy(data,
\* reconstruction), axis=(1, 2))): a number v that depends on both tensors
ReconstructionLoss(L) ==
    /\ pc = "fit" /\ tpc = "recon_loss"
    /\ IF data.shape = reconstruction.shape
       THEN /\ \E v \in L :
                   reconstruction_loss' =
                       [name |-> "reconstruction_loss", val |-> v,
                        from |-> <<data.name, reconstruction.name>>,
                        call |-> reconstruction.call]
            /\ tpc' = "kl_loss"
            /\ pc' = pc
       ELSE Raise /\ UNCHANGED reconstruction_loss
    /\ UNCHANGED <<npy, x_train, weights, iterations, trackers, epoch, step,
                   data, enc_out, reconstruction, kl_loss, total_loss, grads,
                   logs, encoder_calls, decoder_calls, genVars, samplingVars>>

\* kl_loss = reduce_mean(reduce_sum(-0.5 * (1 + z_log_var - square(z_mean)
\* - exp(z_log_var)), axis=1)): a number v that depends on both tensors
KLLoss(L) ==
    /\ pc = "fit" /\ tpc = "kl_loss"
    /\ \E v \in L :
           kl_loss' = [name |-> "kl_loss", val |-> v,
                       from |-> <<Unpacked.z_log_var.name, Unpacked.z_mean.name>>,
                       call |-> Unpacked.z_mean.call]
    /\ tpc' = "total_loss"
    /\ UNCHANGED <<pc, npy, x_train, weights, iterations, trackers, epoch, step,
                   data, enc_out, reconstruction, reconstruction_loss,
                   total_loss, grads, logs, encoder_calls, decoder_calls,
                   genVars, samplingVars>>

\* reconstruction_loss + kl_loss
SumOfLosses(a, b) ==
    [name |-> "total_loss", val |-> a.val + b.val, from |-> <<a.name, b.name>>,
     call |-> a.call]

\* total_loss = reconstruction_loss + kl_loss
TotalLoss ==
    /\ pc = "fit" /\ tpc = "total_loss"
    /\ total_loss' = SumOfLosses(reconstruction_loss, kl_loss)
    /\ tpc' = "gradient"
    /\ UNCHANGED <<pc, npy, x_train, weights, iterations, trackers, epoch, step,
                   data, enc_out, reconstruction, reconstruction_loss, kl_loss,
                   grads, logs, encoder_calls, decoder_calls, genVars,
                   samplingVars>>

\* a variant: the gradients w.r.t. the decoder's weights only
TapeGradientDecoderOnly(target, sources) ==
    [target |-> target.name, terms |-> target.from,
     wrt |-> sources \ {"encoder"}, call |-> target.call]

\* tape.gradient(target, sources): the gradients of target w.r.t. sources
TapeGradient(target, sources) ==
    [target |-> target.name, terms |-> target.from, wrt |-> sources,
     call |-> target.call]

\* grads = tape.gradient(total_loss, self.trainable_weights)
Gradient ==
    /\ pc = "fit" /\ tpc = "gradient"
    /\ grads' = TapeGradient(total_loss, trainable_weights)
    /\ tpc' = "apply"
    /\ UNCHANGED <<pc, npy, x_train, weights, iterations, trackers, epoch, step,
                   data, enc_out, reconstruction, reconstruction_loss, kl_loss,
                   total_loss, logs, encoder_calls, decoder_calls, genVars,
                   samplingVars>>

\* optimizer.apply_gradients(zip(g, ws)): one update of every weight of ws
\* that has a gradient in g
Updated(w, g, ws) ==
    [k \in DOMAIN w |-> IF k \in g.wrt /\ k \in ws THEN w[k] + 1 ELSE w[k]]

\* self.optimizer.apply_gradients(zip(grads, self.trainable_weights))
ApplyGradients ==
    /\ pc = "fit" /\ tpc = "apply"
    /\ weights' = Updated(weights, grads, trainable_weights)
    /\ iterations' = iterations + 1
    /\ tpc' = "update_trackers"
    /\ UNCHANGED <<pc, npy, x_train, trackers, epoch, step, data, enc_out,
                   reconstruction, reconstruction_loss, kl_loss, total_loss,
                   grads, logs, encoder_calls, decoder_calls, genVars,
                   samplingVars>>

\* Mean.update_state(value)
UpdateState(m, value) == [total |-> m.total + value, count |-> m.count + 1]

\* Mean.result(): total / count as the fraction <<numerator, denominator>>,
\* and 0 when nothing was recorded
Result(m) == IF m.count = 0 THEN <<0, 1>> ELSE <<m.total, m.count>>

\* the three update_state calls of train_step
TrackersAfter(t, total, recon, kl) ==
    [t EXCEPT !.total_loss = UpdateState(t.total_loss, total.val),
              !.reconstruction_loss = UpdateState(t.reconstruction_loss, recon.val),
              !.kl_loss = UpdateState(t.kl_loss, kl.val)]

UpdateTrackers ==
    /\ pc = "fit" /\ tpc = "update_trackers"
    /\ trackers' = TrackersAfter(trackers, total_loss, reconstruction_loss, kl_loss)
    /\ tpc' = "return"
    /\ UNCHANGED <<pc, npy, x_train, weights, iterations, epoch, step, data,
                   enc_out, reconstruction, reconstruction_loss, kl_loss,
                   total_loss, grads, logs, encoder_calls, decoder_calls,
                   genVars, samplingVars>>

\* the dictionary train_step returns
Logs(t, call) ==
    [loss |-> Result(t.total_loss),
     reconstruction_loss |-> Result(t.reconstruction_loss),
     kl_loss |-> Result(t.kl_loss), call |-> call]

\* return {...}: control goes back to the batch loop of fit
Return ==
    /\ pc = "fit" /\ tpc = "return"
    /\ logs' = Logs(trackers, total_loss.call)
    /\ tpc' = "next_batch"
    /\ UNCHANGED <<pc, npy, x_train, weights, iterations, trackers, epoch, step,
                   data, enc_out, reconstruction, reconstruction_loss, kl_loss,
                   total_loss, grads, encoder_calls, decoder_calls, genVars,
                   samplingVars>>

(***************************************************************************)
(* Generation: the decoder as a stand-alone model, 12 images on a grid.    *)
(***************************************************************************)
Max(a, b) == IF a >= b THEN a ELSE b

\* np.clip(v, 0, 1) of a value in thousandths
Clip(v) == Max(0, Min(v, 1000))

\* a variant: the loop variable used as the index
SubplotIndexZeroBased(k) == k

\* the subplot index of iteration i
SubplotIndex(k) == k + 1

\* plt.subplot(rows, cols, index) accepts 1 <= index <= rows * cols
SubplotAccepts(rows, cols, index) == 1 <= index /\ index <= rows * cols

\* for i in range(12): the loop goes on while i < 12
MoreImages(k) == k < NumImages

\* random_nums = np.random.normal(size=latent_dim); z_sample = np.array([random_nums])
DrawLatent ==
    /\ pc = "gen_draw"
    /\ MoreImages(i)
    /\ random_draws' = random_draws + 1
    /\ z_sample' = Tensor("z_sample", <<1>> \o <<latent_dim>>, <<"random_nums">>,
                          random_draws + 1)
    /\ pc' = "gen_predict"
    /\ UNCHANGED <<npy, x_train, fitVars, decoder_calls, i, x_decoded, image,
                   figure, samplingVars>>

\* x_decoded = vae.decoder.predict(z_sample);
\* image = np.clip(x_decoded[0].reshape(60, 60, 3), 0, 1)
Predict(P) ==
    /\ pc = "gen_predict"
    /\ IF InputAccepts(latent_inputs, z_sample.shape)
          /\ Product(Tail(DecoderShape(z_sample.shape)))
                 = ImageSide * ImageSide * ImageChannels
       THEN /\ \E pre \in PreActPairs(P) :
                   /\ x_decoded' = decoder(z_sample, pre)
                   /\ image' = [shape |-> <<ImageSide, ImageSide, ImageChannels>>,
                                lo |-> Clip(x_decoded'.lo), hi |-> Clip(x_decoded'.hi),
                                call |-> x_decoded'.call]
            /\ decoder_calls' = decoder_calls + 1
            /\ pc' = "gen_display"
       ELSE pc' = "error" /\ UNCHANGED <<x_decoded, image, decoder_calls>>
    /\ UNCHANGED <<npy, x_train, fitVars, i, random_draws, z_sample, figure,
                   samplingVars>>

\* plt.subplot(3, 4, i + 1); plt.imshow(...); the loop variable advances
Display ==
    /\ pc = "gen_display"
    /\ IF SubplotAccepts(GridRows, GridCols, SubplotIndex(i))
       THEN /\ figure' = Append(figure, [position |-> SubplotIndex(i),
                                         call |-> image.call])
            /\ i' = i + 1
            /\ pc' = "gen_draw"
       ELSE pc' = "error" /\ UNCHANGED <<figure, i>>
    /\ UNCHANGED <<npy, x_train, fitVars, decoder_calls, random_draws, z_sample,
                   x_decoded, image, samplingVars>>

\* the loop is exhausted
LoopEnd ==
    /\ pc = "gen_draw"
    /\ ~MoreImages(i)
    /\ pc' = "show"
    /\ UNCHANGED <<npy, x_train, fitVars, decoder_calls, genVars, samplingVars>>

\* plt.show(): the script ends
Show ==
    /\ pc = "show"
    /\ pc' = "done"
    /\ UNCHANGED <<npy, x_train, fitVars, decoder_calls, genVars, samplingVars>>

(***************************************************************************)
(* Initial states and specifications.                                      *)
(***************************************************************************)
\* the script starts with a file of n images of 60 x 60 x 3 8-bit pixels
\* whose least and greatest pixel are range[1] and range[2]
InitScript(sizes, ranges) ==
    /\ pc = "load"
    /\ \E n \in sizes, range \in ranges :
           npy = [n |-> n, shape |-> <<ImageSide, ImageSide, ImageChannels>>,
                  lo |-> range[1], hi |-> range[2]]
    /\ x_train = NoData
    /\ weights = NewWeights
    /\ iterations = 0
    /\ trackers = NewTrackers
    /\ epoch = 0
    /\ step = 0
    /\ tpc = "idle"
    /\ data = [name |-> "none", shape |-> <<>>, from |-> <<>>, call |-> 0,
               lo |-> 0, hi |-> 0, den |-> 1]
    /\ enc_out = <<NoTensor, NoTensor, NoTensor>>
    /\ reconstruction = NoOutput
    /\ reconstruction_loss = NoLoss
    /\ kl_loss = NoLoss
    /\ total_loss = NoLoss
    /\ grads = NoGrads
    /\ logs = NoLogs
    /\ encoder_calls = 0
    /\ decoder_calls = 0
    /\ i = 0
    /\ random_draws = 0
    /\ z_sample = NoTensor
    /\ x_decoded = NoOutput
    /\ image = [shape |-> <<>>, lo |-> 0, hi |-> 0, call |-> 0]
    /\ figure = <<>>

NoSampling ==
    /\ s_inputs = <<>>
    /\ s_epsilon = <<>>
    /\ s_output = <<>>

\* the whole script, with the program's constants
Init == InitScript(DriverSizes, {<<0, 255>>}) /\ NoSampling

Next ==
    \/ Load \/ Truncate \/ Scale \/ Compile
    \/ EpochBegin(epochs) \/ TrainStepBegin
    \/ Encode \/ Decode({0}) \/ ReconstructionLoss({0}) \/ KLLoss({0})
    \/ TotalLoss \/ Gradient \/ ApplyGradients \/ UpdateTrackers \/ Return
    \/ EpochEnd \/ FitEnd
    \/ DrawLatent \/ Predict(PreActs) \/ Display \/ LoopEnd \/ Show

Spec == Init /\ [][Next]_vars

\* the first MaxEpoch epochs of training, over the values tensors can take
InitTrain == InitScript(SmallSizes, PixelRanges) /\ NoSampling

NextTrain ==
    \/ Load \/ Truncate \/ Scale \/ Compile
    \/ EpochBegin(MaxEpoch) \/ TrainStepBegin
    \/ Encode \/ Decode(PreActs) \/ ReconstructionLoss(0..MaxLoss)
    \/ KLLoss(0..MaxLoss)
    \/ TotalLoss \/ Gradient \/ ApplyGradients \/ UpdateTrackers \/ Return
    \/ EpochEnd

SpecTrain == InitTrain /\ [][NextTrain]_vars

\* Sampling.call on small tensors
InitSampling ==
    /\ InitScript({1}, {<<0, 255>>})
    /\ \E batch \in 1..MaxBatch, dim \in SampleDims :
           \E z_mean \in Matrices(batch, dim, MeanVals),
              z_log_var \in Matrices(batch, dim, LogVarVals) :
               s_inputs = <<z_mean, z_log_var>>
    /\ s_epsilon = <<>>
    /\ s_output = <<>>

NextSampling == SamplingCall

SpecSampling == InitSampling /\ [][NextSampling]_vars

(***************************************************************************)
(* Positions of train_step, and what has been computed at each.            *)
(***************************************************************************)
\* the encoder has run for the current batch
Encoded == pc = "fit" /\ tpc \in {"decode", "recon_loss", "kl_loss", "total_loss",
                                  "gradient", "apply", "update_trackers", "return"}

\* the decoder has run for the current batch
Decoded == pc = "fit" /\ tpc \in {"recon_loss", "kl_loss", "total_loss", "gradient",
                                  "apply", "update_trackers", "return"}

\* the total loss of the current batch has been computed
LossComputed == pc = "fit" /\ tpc \in {"gradient", "apply", "update_trackers", "return"}

\* the optimizer update of the current batch has been made
UpdateDone == pc = "fit" /\ tpc \in {"update_trackers", "return"}

\* no train step is running
BetweenSteps == tpc \in {"idle", "epoch_begin", "next_batch"}

\* the generation phase has started
Generating == pc \in {"gen_draw", "gen_predict", "gen_display", "show", "done"}

(***************************************************************************)
(* C1: every train step makes exactly one optimizer update; the update     *)
(* uses the gradients of total_loss = reconstruction_loss + kl_loss with   *)
(* respect to all trainable weights (encoder and decoder); no weight       *)
(* changes in a train step other than through this update.                 *)
(***************************************************************************)
C1_Counts ==
    /\ BetweenSteps \/ UpdateDone => iterations = data.call
    /\ ~BetweenSteps /\ ~UpdateDone => iterations = data.call - 1
    /\ weights.encoder = iterations /\ weights.decoder = iterations
    /\ weights.encoder_moving_stats = 0 /\ weights.decoder_moving_stats = 0

C1_Update ==
    weights' # weights \/ iterations' # iterations =>
        /\ tpc = "apply" /\ tpc' = "update_trackers"
        /\ grads.target = "total_loss"
        /\ grads.terms = <<"reconstruction_loss", "kl_loss">>
        /\ grads.wrt = {"encoder", "decoder"}
        /\ grads.call = data.call
        /\ total_loss.val = reconstruction_loss.val + kl_loss.val
        /\ reconstruction_loss.call = data.call /\ kl_loss.call = data.call
        /\ weights' = [weights EXCEPT !.encoder = @ + 1, !.decoder = @ + 1]
        /\ iterations' = iterations + 1

\* C1: one optimizer update per train step, with the gradients of
\* reconstruction_loss + kl_loss w.r.t. the encoder's and the decoder's weights,
\* and no other change of a weight.
C1_OneUpdatePerTrainStep == []C1_Counts /\ [][C1_Update]_vars

\* the second update has been made, from losses that are not both zero
C1_Witness ==
    /\ tpc = "update_trackers" /\ iterations = 2
    /\ reconstruction_loss.val = 1 /\ kl_loss.val = 2 /\ total_loss.val = 3
    /\ weights.encoder = 2 /\ weights.decoder = 2

(***************************************************************************)
(* C2: in every train step the order is encoder -> sampling -> decoder ->  *)
(* loss -> update: the decoder is applied to the z that the Sampling layer *)
(* produced for the same batch, the loss is computed from that             *)
(* reconstruction, the update follows the loss of that batch; this is      *)
(* repeated once per batch in every epoch.                                 *)
(***************************************************************************)
C2_DataFlow ==
    /\ Encoded => /\ encoder_calls = data.call
                  /\ enc_out[3].name = "z"
                  /\ enc_out[3].from = <<"z_mean", "z_log_var">>
                  /\ \A k \in 1..3 : enc_out[k].call = data.call
    /\ Decoded => /\ reconstruction.from = <<"z">>
                  /\ reconstruction.call = data.call
    /\ LossComputed => /\ reconstruction_loss.from = <<"data", "decoder_outputs">>
                       /\ reconstruction_loss.call = data.call
                       /\ kl_loss.call = data.call
                       /\ total_loss.call = data.call
    /\ UpdateDone => grads.call = data.call /\ iterations = data.call
    /\ pc = "fit" /\ tpc = "next_batch" =>
           /\ data.call = epoch * ((x_train.n + 63) \div 64) + step
           /\ encoder_calls = data.call /\ decoder_calls = data.call
           /\ iterations = data.call

C2_Order ==
    /\ encoder_calls' # encoder_calls => tpc = "encode" /\ data.call = encoder_calls + 1
    /\ decoder_calls' # decoder_calls =>
           tpc = "decode" /\ Encoded /\ reconstruction'.call = encoder_calls
    /\ total_loss' # total_loss => Decoded /\ reconstruction.call = data.call
    /\ weights' # weights => LossComputed /\ total_loss.call = data.call

\* C2: encoder -> sampling -> decoder -> loss -> update, on the tensors of the
\* same batch, once per batch of every epoch.
C2_EncoderSamplingDecoderLossUpdate == []C2_DataFlow /\ [][C2_Order]_vars

\* the second batch of the second epoch has gone through the whole sequence
C2_Witness ==
    /\ pc = "fit" /\ tpc = "return" /\ epoch = 1 /\ step = 2 /\ x_train.n = 65
    /\ data.call = 4 /\ reconstruction.call = 4 /\ grads.call = 4

(***************************************************************************)
(* C5: the encoder maps images of shape 60x60x3 to (z_mean, z_log_var, z), *)
(* in this order, each of length latent_dim = 32 per example, and z is the *)
(* Sampling layer's output for the z_mean and z_log_var of the same triple.*)
(***************************************************************************)
\* C5: the encoder returns (z_mean, z_log_var, z), each of shape (B, 32), with
\* z sampled from the z_mean and z_log_var of the same triple.
C5_EncoderTriple ==
    Encoded =>
        /\ Tail(data.shape) = <<60, 60, 3>>
        /\ enc_out[1].name = "z_mean" /\ enc_out[2].name = "z_log_var"
        /\ enc_out[3].name = "z"
        /\ \A k \in 1..3 : enc_out[k].shape = <<data.shape[1], 32>>
        /\ enc_out[3].from = <<enc_out[1].name, enc_out[2].name>>
        /\ enc_out[3].call = enc_out[1].call /\ enc_out[3].call = enc_out[2].call
        /\ Unpacked.z_mean = enc_out[1] /\ Unpacked.z_log_var = enc_out[2]
        /\ Unpacked.z = enc_out[3]

\* the encoder has run on a partial batch (the 130th and last two examples)
C5_Witness ==
    /\ Encoded /\ tpc = "decode" /\ data.shape = <<2, 60, 60, 3>>
    /\ enc_out[3].shape = <<2, 32>> /\ enc_out[3].call = 3

(***************************************************************************)
(* C9: the three loss trackers are reset together and updated the same     *)
(* number of times; the values train_step reports satisfy                  *)
(* loss = reconstruction_loss + kl_loss, each the running mean of the      *)
(* per-batch value over the train steps since the last reset.              *)
(***************************************************************************)
C9_Trackers ==
    /\ trackers.total_loss.count = trackers.reconstruction_loss.count
    /\ trackers.total_loss.count = trackers.kl_loss.count
    /\ trackers.total_loss.total =
           trackers.reconstruction_loss.total + trackers.kl_loss.total
    /\ pc = "fit" /\ tpc \in {"return", "next_batch"} =>
           trackers.total_loss.count = step
    /\ pc = "fit" /\ tpc = "next_batch" /\ step > 0 =>
           /\ logs.call = data.call
           /\ logs.loss[2] = step /\ logs.reconstruction_loss[2] = step
           /\ logs.kl_loss[2] = step
           \* loss = reconstruction_loss + kl_loss, as fractions
           /\ logs.loss[1] * logs.reconstruction_loss[2] * logs.kl_loss[2]
                  = logs.loss[2] * (logs.reconstruction_loss[1] * logs.kl_loss[2]
                                    + logs.kl_loss[1] * logs.reconstruction_loss[2])
           /\ logs.loss[1] = trackers.total_loss.total
           /\ logs.reconstruction_loss[1] = trackers.reconstruction_loss.total
           /\ logs.kl_loss[1] = trackers.kl_loss.total

C9_Running ==
    trackers' # trackers =>
        \/ /\ tpc = "update_trackers"
           /\ trackers'.total_loss.total = trackers.total_loss.total + total_loss.val
           /\ trackers'.reconstruction_loss.total
                  = trackers.reconstruction_loss.total + reconstruction_loss.val
           /\ trackers'.kl_loss.total = trackers.kl_loss.total + kl_loss.val
           /\ \A m \in DOMAIN trackers : trackers'[m].count = trackers[m].count + 1
        \/ /\ tpc = "epoch_begin"
           /\ \A m \in DOMAIN trackers :
                  trackers'[m].total = 0 /\ trackers'[m].count = 0

\* C9: the trackers are updated and reset together, hold running sums and
\* counts of the per-batch losses, and report loss = reconstruction_loss + kl_loss.
C9_TrackersAgree == []C9_Trackers /\ [][C9_Running]_vars

\* in the second epoch, after two steps with different losses
C9_Witness ==
    /\ pc = "fit" /\ tpc = "next_batch" /\ epoch = 1 /\ step = 2
    /\ logs.loss = <<3, 2>> /\ logs.reconstruction_loss = <<1, 2>>
    /\ logs.kl_loss = <<2, 2>>

(***************************************************************************)
(* C10: in every train step both arguments of the binary cross-entropy lie *)
(* in [0, 1]: the data (8-bit pixels divided by 255) and the reconstruction*)
(* (the decoder's output).                                                 *)
(***************************************************************************)
\* C10: when the cross-entropy is computed, the data and the reconstruction
\* both lie in [0, 1].
C10_CrossEntropyArgumentsInUnitInterval ==
    pc = "fit" /\ tpc = "recon_loss" =>
        /\ 0 <= data.lo /\ data.hi <= data.den
        /\ 0 <= reconstruction.lo /\ reconstruction.hi <= 1000

(***************************************************************************)
(* C3: generation starts only after the whole fit loop has finished; once  *)
(* it has started there is no further train step or weight update, so all  *)
(* images are decoded by the decoder with the same final weights, and the  *)
(* encoder is never invoked during generation.                             *)
(***************************************************************************)
C3_FitFirst ==
    /\ Generating =>
           /\ tpc = "idle" /\ epoch = 1000
           /\ step = (x_train.n + 63) \div 64
           /\ iterations = encoder_calls
           /\ weights.encoder = iterations /\ weights.decoder = iterations
           /\ decoder_calls - encoder_calls \in {random_draws, random_draws - 1}
    /\ ~Generating =>
           /\ random_draws = 0 /\ figure = <<>> /\ x_decoded = NoOutput
           /\ decoder_calls \in {encoder_calls, encoder_calls - 1}

C3_NoTrainingAfter ==
    Generating =>
        /\ Generating'
        /\ weights' = weights /\ iterations' = iterations
        /\ encoder_calls' = encoder_calls /\ epoch' = epoch /\ step' = step
        /\ tpc' = tpc

\* C3: generation starts after the last train step of the last epoch, and
\* nothing trains, updates a weight or calls the encoder once it has started.
C3_GenerationAfterFit == []C3_FitFirst /\ [][C3_NoTrainingAfter]_vars

\* the second image has been decoded after 1000 epochs of 2 batches
C3_Witness ==
    /\ pc = "gen_display" /\ random_draws = 2 /\ Len(figure) = 1
    /\ epoch = 1000 /\ iterations = 2000 /\ weights.decoder = 2000
    /\ decoder_calls = 2002 /\ encoder_calls = 2000

(***************************************************************************)
(* C6: decoding gives an image of the shape of the encoder's input: a      *)
(* batch of B latent vectors of length 32 gives (B, 60, 60, 3): 15x15      *)
(* after the reshape, doubled by each stride-2 transposed convolution,     *)
(* unchanged by the last; the data and its reconstruction have the same    *)
(* shape, and the reshape to (60, 60, 3) in generation is valid.           *)
(***************************************************************************)
C6_Layers(out, B) ==
    /\ out.shape = <<B, 60, 60, 3>>
    /\ out.layers[2] = <<B, 15, 15, 128>>
    /\ out.layers[3] = <<B, 30, 30, 64>>
    /\ out.layers[6] = <<B, 60, 60, 32>>
    /\ out.layers[7] = <<B, 60, 60, 3>>

\* C6: the decoder maps (B, 32) to (B, 60, 60, 3) through 15x15, 30x30 and
\* 60x60; reconstruction and data have the same shape; the reshape is valid.
C6_DecoderOutputShape ==
    /\ pc # "error"
    /\ Decoded => /\ enc_out[3].shape = <<data.shape[1], 32>>
                  /\ C6_Layers(reconstruction, enc_out[3].shape[1])
                  /\ reconstruction.shape = data.shape
                  /\ Tail(reconstruction.shape) = encoder_inputs
    /\ pc = "gen_display" => /\ z_sample.shape = <<1, 32>>
                             /\ C6_Layers(x_decoded, 1)
                             /\ image.shape = Tail(x_decoded.shape)

\* an image has been decoded in generation, after training on 64 examples
C6_Witness ==
    /\ pc = "gen_display" /\ x_decoded.shape = <<1, 60, 60, 3>>
    /\ image.shape = <<60, 60, 3>>
    /\ data.shape = <<64, 60, 60, 3>> /\ reconstruction.shape = data.shape

(***************************************************************************)
(* C7: Sampling returns, for inputs of shape (batch, dim), a tensor of the *)
(* same shape whose every entry is z_mean + exp(0.5 * z_log_var) * epsilon *)
(* for a noise tensor of shape (batch, dim), one draw per example and per  *)
(* dimension; where epsilon is 0 the result is z_mean.  (exp(0) = 1 and    *)
(* exp(-1) = 0.368; the result is in thousandths.)                         *)
(***************************************************************************)
\* C7: every entry of Sampling's output is z_mean + exp(0.5 * z_log_var) *
\* epsilon for a noise tensor of the inputs' shape; z_mean where epsilon is 0.
C7_Reparameterization ==
    s_output # <<>> =>
        LET z_mean    == s_inputs[1]
            z_log_var == s_inputs[2]
        IN  /\ DOMAIN s_output = DOMAIN z_mean
            /\ DOMAIN s_epsilon = DOMAIN z_mean
            /\ \A b \in DOMAIN z_mean :
                   /\ DOMAIN s_output[b] = DOMAIN z_mean[b]
                   /\ DOMAIN s_epsilon[b] = DOMAIN z_mean[b]
                   /\ \A d \in DOMAIN z_mean[b] :
                          /\ z_log_var[b][d] = 0 =>
                                 s_output[b][d]
                                     = 1000 * (z_mean[b][d] + s_epsilon[b][d])
                          /\ z_log_var[b][d] = -2 =>
                                 s_output[b][d]
                                     = 1000 * z_mean[b][d] + 368 * s_epsilon[b][d]
                          /\ s_epsilon[b][d] = 0 =>
                                 s_output[b][d] = 1000 * z_mean[b][d]

\* two examples with the same mean and log-variance got different noise, one
\* of them none
C7_Witness ==
    /\ s_output # <<>> /\ Len(s_output) = 2 /\ Len(s_output[1]) = 2
    /\ s_inputs[1][1] = s_inputs[1][2] /\ s_inputs[2][1][1] = -2
    /\ s_inputs[2][2][1] = -2
    /\ s_epsilon[1][1] = 0 /\ s_epsilon[2][1] = -1 /\ s_epsilon[1][2] = 1
    /\ s_output[1][1] = 1000 * s_inputs[1][1][1]
    /\ s_output[2][1] = 1000 * s_inputs[1][2][1] - 368

(***************************************************************************)
(* C8: generation produces exactly 12 images: each of 12 iterations draws  *)
(* one fresh latent vector of length latent_dim, decodes that one vector   *)
(* (a batch of 1) and displays it at position i + 1 of a 3x4 grid;         *)
(* positions 1..12 are each filled once and none is out of range.          *)
(***************************************************************************)
\* C8: twelve iterations, each decoding one fresh latent vector as a batch of
\* one and showing it at position i + 1; positions 1..12 filled once each.
C8_TwelveImages ==
    /\ pc # "error"
    /\ \A k \in 1..Len(figure) :
           /\ figure[k].position = k /\ figure[k].position \in 1..12
           /\ figure[k].call = k
    /\ Len(figure) = i /\ i <= 12
    /\ pc \in {"gen_predict", "gen_display"} =>
           /\ random_draws = i + 1
           /\ z_sample.shape = <<1, 32>> /\ z_sample.call = random_draws
    /\ pc = "gen_display" =>
           /\ x_decoded.from = <<"z_sample">> /\ x_decoded.call = z_sample.call
           /\ x_decoded.shape[1] = 1 /\ image.call = x_decoded.call
           /\ decoder_calls = encoder_calls + random_draws
           /\ 0 <= image.lo /\ image.hi <= 1000
    /\ pc \in {"show", "done"} =>
           /\ Len(figure) = 12 /\ random_draws = 12
           /\ decoder_calls = encoder_calls + 12
           /\ \A p \in 1..12 :
                  Cardinality({k \in 1..Len(figure) : figure[k].position = p}) = 1

\* all twelve images are on the figure
C8_Witness ==
    /\ pc = "done" /\ Len(figure) = 12 /\ figure[12].position = 12
    /\ random_draws = 12

(***************************************************************************)
(* C4: the training driver terminates after a fixed number of epochs: for  *)
(* N = min(dataset size, 15000) examples, fit runs exactly 1000 epochs     *)
(* with batch size 64, each of ceil(N / 64) train steps, after which       *)
(* training is done; nothing shortens or extends it.                       *)
(***************************************************************************)
C4_N == IF npy.n < 15000 THEN npy.n ELSE 15000

C4_Steps == (C4_N + 63) \div 64

C4_Counts ==
    /\ pc # "error"
    /\ pc \notin {"load", "truncate"} => x_train.n = C4_N
    /\ pc = "fit" =>
           /\ epoch <= 1000 /\ step <= C4_Steps
           /\ tpc = "epoch_begin" =>
                  iterations = epoch * C4_Steps /\ encoder_calls = iterations
           /\ tpc = "next_batch" =>
                  /\ epoch < 1000 /\ iterations = epoch * C4_Steps + step
                  /\ encoder_calls = iterations
           /\ ~BetweenSteps =>
                  /\ epoch < 1000 /\ step >= 1
                  /\ data.call = epoch * C4_Steps + step
                  /\ data.shape[1] = IF step * 64 <= C4_N THEN 64
                                     ELSE C4_N - 64 * (step - 1)
                  /\ data.shape[1] >= 1
    /\ Generating =>
           /\ epoch = 1000
           /\ iterations = 1000 * C4_Steps
           /\ encoder_calls = 1000 * C4_Steps
    \* between train steps the script is never stuck before its end
    /\ pc # "done" /\ BetweenSteps => ENABLED Next

\* what is left to do, as a tuple that every step of the script decreases
C4_Rank ==
    <<CASE pc = "load" -> 8 [] pc = "truncate" -> 7 [] pc = "scale" -> 6
        [] pc = "compile" -> 5 [] pc = "fit" -> 4
        [] pc \in {"gen_draw", "gen_predict", "gen_display"} -> 3
        [] pc = "show" -> 2 [] pc = "done" -> 1 [] OTHER -> 0,
      IF pc = "fit" THEN 1000 - epoch ELSE 12 - i,
      IF pc = "fit" /\ tpc = "epoch_begin" THEN 1 ELSE 0,
      IF pc = "fit" /\ tpc # "epoch_begin" THEN C4_Steps - step ELSE 0,
      CASE tpc = "encode" -> 9 [] tpc = "decode" -> 8 [] tpc = "recon_loss" -> 7
        [] tpc = "kl_loss" -> 6 [] tpc = "total_loss" -> 5 [] tpc = "gradient" -> 4
        [] tpc = "apply" -> 3 [] tpc = "update_trackers" -> 2 [] tpc = "return" -> 1
        [] pc = "gen_draw" -> 3 [] pc = "gen_predict" -> 2 [] pc = "gen_display" -> 1
        [] OTHER -> 0>>

C4_Less(a, b) ==
    \E k \in 1..5 : /\ a[k] < b[k] /\ a[k] >= 0
                    /\ \A j \in 1..(k - 1) : a[j] = b[j]

C4_Progress == C4_Less(C4_Rank', C4_Rank)

\* C4: fit runs exactly 1000 epochs of ceil(min(size, 15000) / 64) train steps
\* and the script always moves on towards its end.
C4_FixedNumberOfEpochs == []C4_Counts /\ [][C4_Progress]_vars

\* a file of 65 images: the script ended after 1000 epochs of 2 train steps
C4_Witness ==
    /\ pc = "done" /\ npy.n = 65 /\ x_train.n = 65
    /\ epoch = 1000 /\ step = 2 /\ iterations = 2000

====
